---- MODULE Spec2Model ----
(***************************************************************************)
(* Model of the raise contract: the subscription registry (pending,        *)
(* eligible, accepted), the per-subscription asset-exchange queues and the *)
(* outstanding-redemption list, with one action per handler.               *)
(*                                                                         *)
(* A handler is a pure operator from the storage it is called on (and the  *)
(* answers of the queries it makes) to a result: ok or error, and the      *)
(* storage as the handler has written it when it returns.  A handler       *)
(* action leaves the storage as the handler wrote it and records the call  *)
(* in the variable call; the host then finishes the transaction: it keeps  *)
(* the writes of a successful handler and discards those of a failed one.  *)
(***************************************************************************)
EXTENDS Integers, Sequences, FiniteSets, TLC

VARIABLES
    state,                      \* the config singleton (State)
    pending,                    \* pending_subscriptions singleton
    eligible,                   \* eligible_subscriptions singleton
    accepted,                   \* accepted_subscriptions singleton
    asset_exchange_storage,     \* bucket: subscription -> Option<Vec<AssetExchange>>
    outstanding_redemptions,    \* singleton: Option<Vec<Redemption>>
    instantiated,               \* host: number of subscription contracts instantiated
    inflight,                   \* host: Option<reply id> of the instantiate sub-message
    call,                       \* Option<the handler call that has just returned>
    was_accepted                \* history: the addresses accepted in a finished transaction

vars == <<state, pending, eligible, accepted, asset_exchange_storage,
          outstanding_redemptions, instantiated, inflight, call, was_accepted>>

-----------------------------------------------------------------------------
(* Bounds *)

MaxSubs == 2

MaxBatch == 2

MaxQueue == 1

MaxRedemptions == 1

\* the redemption ledger on its own: records outstanding, records per batch
MaxOutstanding == 3

MaxIssue == 2

\* the asset-exchange queues on their own: entries per queue
MaxExchanges == 2

-----------------------------------------------------------------------------
(* Values *)

None == << >>

Some(x) == << x >>

IsSome(o) == o # << >>

Unwrap(o) == o[1]

\* addresses: gp, the subscription contracts, and one outsider
gp == 0

Addrs == 1 .. MaxSubs

bad_actor == MaxSubs + 1

\* the address of the marker, and the address a claim pays to
marker_address == MaxSubs + 2

destination == MaxSubs + 3

capital_per_share == 100

\* amounts offered to AcceptSubscriptions: a multiple of capital_per_share and a non-multiple
Amounts == {20000, 20001}

Accreditations == {"506c"}

\* answers of the attribute query for a subscription's lp: None is a failed query
AttributeAnswers == {None} \cup {Some(a) : a \in SUBSET Accreditations}

\* answers of the bank balance query (commitment_denom): None is a failed query
BalanceAnswers == {None, Some(0), Some(100)}

\* sequences over S of length at most n
RECURSIVE SeqsUpTo(_, _)
SeqsUpTo(S, n) ==
    IF n = 0 THEN {<< >>}
    ELSE LET shorter == SeqsUpTo(S, n - 1)
         IN  shorter \cup {Append(q, x) : q \in {r \in shorter : Len(r) = n - 1}, x \in S}

\* sequences over S of length at most n without repetition (an iteration order of a HashSet)
NoDupSeqs(S, n) ==
    {q \in SeqsUpTo(S, n) : \A i, j \in 1 .. Len(q) : i # j => q[i] # q[j]}

Range(q) == {q[i] : i \in 1 .. Len(q)}

\* the sequence q without its element at index i (Vec::remove)
RemoveAt(q, i) == SubSeq(q, 1, i - 1) \o SubSeq(q, i + 1, Len(q))

-----------------------------------------------------------------------------
(* Storage *)

Store ==
    [pending |-> pending, eligible |-> eligible, accepted |-> accepted,
     asset_exchange |-> asset_exchange_storage,
     outstanding |-> outstanding_redemptions]

\* a handler's result: Ok(Response) or Err, with the storage as written at return
Ok(store, msgs, attrs) ==
    [ok |-> TRUE, err |-> "", store |-> store, msgs |-> msgs, attributes |-> attrs]

contract_error(store, msg) ==
    [ok |-> FALSE, err |-> msg, store |-> store, msgs |-> << >>, attributes |-> << >>]

-----------------------------------------------------------------------------
(* Config helpers *)

not_evenly_divisble(amount) == amount % state.capital_per_share > 0

capital_to_shares(amount) == amount \div state.capital_per_share

\* attributes(..) of an address intersect the acceptable accreditations
HasAccreditation(answer) == Unwrap(answer) \cap state.acceptable_accreditations # {}

-----------------------------------------------------------------------------
(* ProposeSubscription and the instantiate reply *)

\* try_propose_subscription tagging every sub-message with reply id 0
ProposeAlwaysPending(store, sender, answer) ==
    IF state.acceptable_accreditations # {} /\ answer = None
    THEN contract_error(store, "attributes query failed")
    ELSE LET is_eligible == IF state.acceptable_accreditations = {} THEN TRUE
                            ELSE HasAccreditation(answer)
             create_sub == [type |-> "instantiate", lp |-> sender, id |-> 0]
         IN  Ok(store, << create_sub >>,
                << [key |-> "eligible",
                    value |-> IF is_eligible THEN "true" ELSE "false"] >>)

\* answer: the attribute query's answer for the sender
try_propose_subscription(store, sender, answer) ==
    IF state.acceptable_accreditations # {} /\ answer = None
    THEN contract_error(store, "attributes query failed")
    ELSE LET is_eligible == IF state.acceptable_accreditations = {} THEN TRUE
                            ELSE HasAccreditation(answer)
             create_sub == [type |-> "instantiate", lp |-> sender,
                            id |-> IF is_eligible THEN 1 ELSE 0]
         IN  Ok(store, << create_sub >>,
                << [key |-> "eligible",
                    value |-> IF is_eligible THEN "true" ELSE "false"] >>)

\* the reply handler: the new contract's address enters eligible (id 1) or pending
try_reply(store, id, address) ==
    IF id = 1
    THEN Ok([store EXCEPT !.eligible = @ \cup {address}], << >>, << >>)
    ELSE Ok([store EXCEPT !.pending = @ \cup {address}], << >>, << >>)

-----------------------------------------------------------------------------
(* CloseSubscriptions *)

\* CloseOne leaving the queue of an accepted subscription in place
CloseOneKeepsQueue(loc, subscription, balances) ==
    IF subscription \in loc.pending
    THEN [loc EXCEPT !.pending = @ \ {subscription}]
    ELSE IF subscription \in loc.eligible
    THEN [loc EXCEPT !.eligible = @ \ {subscription}]
    ELSE IF subscription \in loc.accepted
    THEN IF balances[subscription] = None
         THEN [loc EXCEPT !.err = "balance query failed"]
         ELSE IF Unwrap(balances[subscription]) = 0
         THEN [loc EXCEPT !.accepted = @ \ {subscription}]
         ELSE [loc EXCEPT !.err = "sub still has remaining commitment"]
    ELSE [loc EXCEPT !.err = "no subscription pending or accepted to close"]

\* CloseOne removing an accepted subscription whatever its balance
CloseOneIgnoresBalance(loc, subscription, balances) ==
    IF subscription \in loc.pending
    THEN [loc EXCEPT !.pending = @ \ {subscription}]
    ELSE IF subscription \in loc.eligible
    THEN [loc EXCEPT !.eligible = @ \ {subscription}]
    ELSE IF subscription \in loc.accepted
    THEN IF balances[subscription] = None
         THEN [loc EXCEPT !.err = "balance query failed"]
         ELSE [loc EXCEPT !.accepted = @ \ {subscription},
                          !.asset_exchange[subscription] = None]
    ELSE [loc EXCEPT !.err = "no subscription pending or accepted to close"]

\* CloseOne passing over an address that is in none of the sets
CloseOneSkipsUnknown(loc, subscription, balances) ==
    IF subscription \in loc.pending
    THEN [loc EXCEPT !.pending = @ \ {subscription}]
    ELSE IF subscription \in loc.eligible
    THEN [loc EXCEPT !.eligible = @ \ {subscription}]
    ELSE IF subscription \in loc.accepted
    THEN IF balances[subscription] = None
         THEN [loc EXCEPT !.err = "balance query failed"]
         ELSE IF Unwrap(balances[subscription]) = 0
         THEN [loc EXCEPT !.accepted = @ \ {subscription},
                          !.asset_exchange[subscription] = None]
         ELSE [loc EXCEPT !.err = "sub still has remaining commitment"]
    ELSE loc

\* one iteration of the loop over the batch; loc holds the handler's local
\* copies of the three sets, the bucket as written so far, and the error
CloseOne(loc, subscription, balances) ==
    IF subscription \in loc.pending
    THEN [loc EXCEPT !.pending = @ \ {subscription}]
    ELSE IF subscription \in loc.eligible
    THEN [loc EXCEPT !.eligible = @ \ {subscription}]
    ELSE IF subscription \in loc.accepted
    THEN IF balances[subscription] = None
         THEN [loc EXCEPT !.err = "balance query failed"]
         ELSE IF Unwrap(balances[subscription]) = 0
         THEN [loc EXCEPT !.accepted = @ \ {subscription},
                          !.asset_exchange[subscription] = None]
         ELSE [loc EXCEPT !.err = "sub still has remaining commitment"]
    ELSE [loc EXCEPT !.err = "no subscription pending or accepted to close"]

RECURSIVE CloseLoop(_, _, _, _)
CloseLoop(loc, subscriptions, i, balances) ==
    IF i > Len(subscriptions) \/ loc.err # "" THEN loc
    ELSE CloseLoop(CloseOne(loc, subscriptions[i], balances), subscriptions, i + 1, balances)

\* try_close_subscriptions without the save of eligible
CloseForgetsEligible(store, sender, subscriptions, balances) ==
    IF sender # state.gp
    THEN contract_error(store, "only gp can close subscriptions")
    ELSE LET loc == CloseLoop([pending |-> store.pending, eligible |-> store.eligible,
                               accepted |-> store.accepted,
                               asset_exchange |-> store.asset_exchange, err |-> ""],
                              subscriptions, 1, balances)
         IN  IF loc.err # ""
             THEN contract_error([store EXCEPT !.asset_exchange = loc.asset_exchange], loc.err)
             ELSE Ok([store EXCEPT !.pending = loc.pending,
                                   !.accepted = loc.accepted,
                                   !.asset_exchange = loc.asset_exchange], << >>, << >>)

\* try_close_subscriptions clearing the redemption list along with the batch
CloseDropsRedemptions(store, sender, subscriptions, balances) ==
    IF sender # state.gp
    THEN contract_error(store, "only gp can close subscriptions")
    ELSE LET loc == CloseLoop([pending |-> store.pending, eligible |-> store.eligible,
                               accepted |-> store.accepted,
                               asset_exchange |-> store.asset_exchange, err |-> ""],
                              subscriptions, 1, balances)
         IN  IF loc.err # ""
             THEN contract_error([store EXCEPT !.asset_exchange = loc.asset_exchange], loc.err)
             ELSE Ok([store EXCEPT !.pending = loc.pending, !.eligible = loc.eligible,
                                   !.accepted = loc.accepted,
                                   !.asset_exchange = loc.asset_exchange,
                                   !.outstanding = None], << >>, << >>)

\* subscriptions: the HashSet in the order the loop visits it
\* balances: the bank's answers, by subscription
try_close_subscriptions(store, sender, subscriptions, balances) ==
    IF sender # state.gp
    THEN contract_error(store, "only gp can close subscriptions")
    ELSE LET loc == CloseLoop([pending |-> store.pending, eligible |-> store.eligible,
                               accepted |-> store.accepted,
                               asset_exchange |-> store.asset_exchange, err |-> ""],
                              subscriptions, 1, balances)
         IN  IF loc.err # ""
             THEN contract_error([store EXCEPT !.asset_exchange = loc.asset_exchange], loc.err)
             ELSE Ok([store EXCEPT !.pending = loc.pending, !.eligible = loc.eligible,
                                   !.accepted = loc.accepted,
                                   !.asset_exchange = loc.asset_exchange], << >>, << >>)

-----------------------------------------------------------------------------
(* AcceptSubscriptions *)

\* AcceptExchange without the conversion of capital to shares
AcceptExchangeInCapital(accept) ==
    [investment |-> None,
     commitment_in_shares |-> Some(accept.commitment_in_capital),
     capital |-> None, date |-> None]

\* the entry AcceptSubscriptions stores for an accepted subscription (the
\* conversion of the shares to i64 cannot fail for the amounts of Amounts)
AcceptExchange(accept) ==
    [investment |-> None,
     commitment_in_shares |-> Some(capital_to_shares(accept.commitment_in_capital)),
     capital |-> None, date |-> None]

\* AcceptInsert without the insertion into accepted
AcceptInsertQueueOnly(loc, accept) ==
    [loc EXCEPT !.asset_exchange[accept.subscription] = Some(<< AcceptExchange(accept) >>)]

\* insert into accepted and save the subscription's queue
AcceptInsert(loc, accept) ==
    [loc EXCEPT !.accepted = @ \cup {accept.subscription},
                !.asset_exchange[accept.subscription] = Some(<< AcceptExchange(accept) >>)]

\* AcceptOne without the removal from pending
AcceptOneKeepsPending(loc, accept, answers) ==
    IF not_evenly_divisble(accept.commitment_in_capital)
    THEN [loc EXCEPT !.err = "accept amount must be evenly divisble by capital per share"]
    ELSE IF accept.subscription \in loc.eligible
    THEN AcceptInsert([loc EXCEPT !.eligible = @ \ {accept.subscription}], accept)
    ELSE IF accept.subscription \in loc.pending
    THEN IF state.acceptable_accreditations # {} /\ answers[accept.subscription] = None
         THEN [loc EXCEPT !.err = "subscription state or attributes query failed"]
         ELSE IF state.acceptable_accreditations # {}
                 /\ ~HasAccreditation(answers[accept.subscription])
         THEN [loc EXCEPT !.err =
                  "subscription owner must have one of acceptable accreditations"]
         ELSE AcceptInsert(loc, accept)
    ELSE [loc EXCEPT !.err = "subscription must either be pending or eligible"]

\* AcceptOne without the check of the amount against capital_per_share
AcceptOneAnyAmount(loc, accept, answers) ==
    IF accept.subscription \in loc.eligible
    THEN AcceptInsert([loc EXCEPT !.eligible = @ \ {accept.subscription}], accept)
    ELSE IF accept.subscription \in loc.pending
    THEN IF state.acceptable_accreditations # {} /\ answers[accept.subscription] = None
         THEN [loc EXCEPT !.err = "subscription state or attributes query failed"]
         ELSE IF state.acceptable_accreditations # {}
                 /\ ~HasAccreditation(answers[accept.subscription])
         THEN [loc EXCEPT !.err =
                  "subscription owner must have one of acceptable accreditations"]
         ELSE AcceptInsert([loc EXCEPT !.pending = @ \ {accept.subscription}], accept)
    ELSE [loc EXCEPT !.err = "subscription must either be pending or eligible"]

\* AcceptOne passing over a subscription that is neither pending nor eligible
AcceptOneSkipsUnknown(loc, accept, answers) ==
    IF not_evenly_divisble(accept.commitment_in_capital)
    THEN [loc EXCEPT !.err = "accept amount must be evenly divisble by capital per share"]
    ELSE IF accept.subscription \in loc.eligible
    THEN AcceptInsert([loc EXCEPT !.eligible = @ \ {accept.subscription}], accept)
    ELSE IF accept.subscription \in loc.pending
    THEN IF state.acceptable_accreditations # {} /\ answers[accept.subscription] = None
         THEN [loc EXCEPT !.err = "subscription state or attributes query failed"]
         ELSE IF state.acceptable_accreditations # {}
                 /\ ~HasAccreditation(answers[accept.subscription])
         THEN [loc EXCEPT !.err =
                  "subscription owner must have one of acceptable accreditations"]
         ELSE AcceptInsert([loc EXCEPT !.pending = @ \ {accept.subscription}], accept)
    ELSE loc

\* AcceptOne accepting a pending subscription without the accreditation check
AcceptOneNoAccreditation(loc, accept, answers) ==
    IF not_evenly_divisble(accept.commitment_in_capital)
    THEN [loc EXCEPT !.err = "accept amount must be evenly divisble by capital per share"]
    ELSE IF accept.subscription \in loc.eligible
    THEN AcceptInsert([loc EXCEPT !.eligible = @ \ {accept.subscription}], accept)
    ELSE IF accept.subscription \in loc.pending
    THEN AcceptInsert([loc EXCEPT !.pending = @ \ {accept.subscription}], accept)
    ELSE [loc EXCEPT !.err = "subscription must either be pending or eligible"]

\* AcceptOne taking an eligible subscription out of eligible without putting it
\* into accepted
AcceptOneDropsEligible(loc, accept, answers) ==
    IF not_evenly_divisble(accept.commitment_in_capital)
    THEN [loc EXCEPT !.err = "accept amount must be evenly divisble by capital per share"]
    ELSE IF accept.subscription \in loc.eligible
    THEN [loc EXCEPT !.eligible = @ \ {accept.subscription}]
    ELSE IF accept.subscription \in loc.pending
    THEN IF state.acceptable_accreditations # {} /\ answers[accept.subscription] = None
         THEN [loc EXCEPT !.err = "subscription state or attributes query failed"]
         ELSE IF state.acceptable_accreditations # {}
                 /\ ~HasAccreditation(answers[accept.subscription])
         THEN [loc EXCEPT !.err =
                  "subscription owner must have one of acceptable accreditations"]
         ELSE AcceptInsert([loc EXCEPT !.pending = @ \ {accept.subscription}], accept)
    ELSE [loc EXCEPT !.err = "subscription must either be pending or eligible"]

\* AcceptOne moving a pending subscription whose lp holds an accreditation into
\* eligible instead of accepted
AcceptOnePromotesPending(loc, accept, answers) ==
    IF not_evenly_divisble(accept.commitment_in_capital)
    THEN [loc EXCEPT !.err = "accept amount must be evenly divisble by capital per share"]
    ELSE IF accept.subscription \in loc.eligible
    THEN AcceptInsert([loc EXCEPT !.eligible = @ \ {accept.subscription}], accept)
    ELSE IF accept.subscription \in loc.pending
    THEN IF state.acceptable_accreditations # {} /\ answers[accept.subscription] = None
         THEN [loc EXCEPT !.err = "subscription state or attributes query failed"]
         ELSE IF state.acceptable_accreditations # {}
                 /\ ~HasAccreditation(answers[accept.subscription])
         THEN [loc EXCEPT !.err =
                  "subscription owner must have one of acceptable accreditations"]
         ELSE [loc EXCEPT !.pending = @ \ {accept.subscription},
                          !.eligible = @ \cup {accept.subscription}]
    ELSE [loc EXCEPT !.err = "subscription must either be pending or eligible"]

\* AcceptOne leaving an accepted subscription in eligible
AcceptOneKeepsEligible(loc, accept, answers) ==
    IF not_evenly_divisble(accept.commitment_in_capital)
    THEN [loc EXCEPT !.err = "accept amount must be evenly divisble by capital per share"]
    ELSE IF accept.subscription \in loc.eligible
    THEN AcceptInsert(loc, accept)
    ELSE IF accept.subscription \in loc.pending
    THEN IF state.acceptable_accreditations # {} /\ answers[accept.subscription] = None
         THEN [loc EXCEPT !.err = "subscription state or attributes query failed"]
         ELSE IF state.acceptable_accreditations # {}
                 /\ ~HasAccreditation(answers[accept.subscription])
         THEN [loc EXCEPT !.err =
                  "subscription owner must have one of acceptable accreditations"]
         ELSE AcceptInsert([loc EXCEPT !.pending = @ \ {accept.subscription}], accept)
    ELSE [loc EXCEPT !.err = "subscription must either be pending or eligible"]

\* one iteration of the loop over the batch
\* answers: by subscription, the attributes of the subscription's lp
AcceptOne(loc, accept, answers) ==
    IF not_evenly_divisble(accept.commitment_in_capital)
    THEN [loc EXCEPT !.err = "accept amount must be evenly divisble by capital per share"]
    ELSE IF accept.subscription \in loc.eligible
    THEN AcceptInsert([loc EXCEPT !.eligible = @ \ {accept.subscription}], accept)
    ELSE IF accept.subscription \in loc.pending
    THEN IF state.acceptable_accreditations # {} /\ answers[accept.subscription] = None
         THEN [loc EXCEPT !.err = "subscription state or attributes query failed"]
         ELSE IF state.acceptable_accreditations # {}
                 /\ ~HasAccreditation(answers[accept.subscription])
         THEN [loc EXCEPT !.err =
                  "subscription owner must have one of acceptable accreditations"]
         ELSE AcceptInsert([loc EXCEPT !.pending = @ \ {accept.subscription}], accept)
    ELSE [loc EXCEPT !.err = "subscription must either be pending or eligible"]

RECURSIVE AcceptLoop(_, _, _, _)
AcceptLoop(loc, accepts, i, answers) ==
    IF i > Len(accepts) \/ loc.err # "" THEN loc
    ELSE AcceptLoop(AcceptOne(loc, accepts[i], answers), accepts, i + 1, answers)

try_accept_subscriptions(store, sender, accepts, answers) ==
    IF sender # state.gp
    THEN contract_error(store, "only gp can accept subscriptions")
    ELSE LET loc == AcceptLoop([pending |-> store.pending, eligible |-> store.eligible,
                                accepted |-> store.accepted,
                                asset_exchange |-> store.asset_exchange, err |-> ""],
                               accepts, 1, answers)
         IN  IF loc.err # ""
             THEN contract_error([store EXCEPT !.asset_exchange = loc.asset_exchange], loc.err)
             ELSE Ok([store EXCEPT !.pending = loc.pending, !.eligible = loc.eligible,
                                   !.accepted = loc.accepted,
                                   !.asset_exchange = loc.asset_exchange], << >>, << >>)

-----------------------------------------------------------------------------
(* Asset-exchange ledger: IssueAssetExchanges, CancelAssetExchanges,       *)
(* CompleteAssetExchange                                                   *)

\* the queue stored for a subscription, empty when the key is absent
QueueOf(store, subscription) ==
    IF IsSome(store.asset_exchange[subscription])
    THEN Unwrap(store.asset_exchange[subscription]) ELSE << >>

\* the stored form of a queue: an empty list is an absent key
StoredQueue(queue) == IF queue = << >> THEN None ELSE Some(queue)

\* position taking the last TRUE instead of the first
PositionOfLast(hits) ==
    IF \E i \in 1 .. Len(hits) : hits[i]
    THEN CHOOSE i \in 1 .. Len(hits) : hits[i] /\ \A j \in i + 1 .. Len(hits) : ~hits[j]
    ELSE 0

\* iter().position(..): the index of the first TRUE of a sequence of booleans
\* (one per element, the predicate applied to it), 0 when there is none
position(hits) ==
    IF \E i \in 1 .. Len(hits) : hits[i]
    THEN CHOOSE i \in 1 .. Len(hits) : hits[i] /\ \A j \in 1 .. i - 1 : ~hits[j]
    ELSE 0

try_issue_asset_exchanges(store, sender, subscription, exchanges) ==
    IF sender # state.gp
    THEN contract_error(store, "only gp can issue asset exchanges")
    ELSE IF subscription \notin store.accepted
    THEN contract_error(store, "subscription must be accepted")
    ELSE Ok([store EXCEPT !.asset_exchange[subscription] =
                 StoredQueue(QueueOf(store, subscription) \o exchanges)], << >>, << >>)

\* RemoveExchanges matching an entry on its three amounts, not on its date
RECURSIVE RemoveExchangesIgnoringDate(_, _, _)
RemoveExchangesIgnoringDate(acc, exchanges, i) ==
    IF i > Len(exchanges) \/ acc.err # "" THEN acc
    ELSE LET index == position([k \in 1 .. Len(acc.queue) |->
                                   /\ acc.queue[k].investment = exchanges[i].investment
                                   /\ acc.queue[k].commitment_in_shares
                                          = exchanges[i].commitment_in_shares
                                   /\ acc.queue[k].capital = exchanges[i].capital])
         IN  IF index = 0
             THEN [acc EXCEPT !.err = "no asset exchange found"]
             ELSE RemoveExchangesIgnoringDate([acc EXCEPT !.queue = RemoveAt(@, index)],
                                              exchanges, i + 1)

\* remove from the queue the first element equal to each exchange in turn;
\* acc is [queue, err]
RECURSIVE RemoveExchanges(_, _, _)
RemoveExchanges(acc, exchanges, i) ==
    IF i > Len(exchanges) \/ acc.err # "" THEN acc
    ELSE LET index == position([k \in 1 .. Len(acc.queue) |-> acc.queue[k] = exchanges[i]])
         IN  IF index = 0
             THEN [acc EXCEPT !.err = "no asset exchange found"]
             ELSE RemoveExchanges([acc EXCEPT !.queue = RemoveAt(@, index)], exchanges, i + 1)

try_cancel_asset_exchanges(store, sender, subscription, exchanges) ==
    IF sender # state.gp
    THEN contract_error(store, "only gp can cancel asset exchanges")
    ELSE LET acc == RemoveExchanges([queue |-> QueueOf(store, subscription), err |-> ""],
                                    exchanges, 1)
         IN  IF acc.err # "" THEN contract_error(store, acc.err)
             ELSE Ok([store EXCEPT !.asset_exchange[subscription] = StoredQueue(acc.queue)],
                     << >>, << >>)

\* the messages of one numeric field of an exchange (the table of 4.4.1)
FieldMessages(field, denom, subscription) ==
    IF field = None \/ field = Some(0) THEN << >>
    ELSE IF Unwrap(field) > 0
    THEN << [type |-> "mint", amount |-> Unwrap(field), denom |-> denom, to |-> marker_address],
            [type |-> "transfer", amount |-> Unwrap(field), denom |-> denom,
             to |-> subscription] >>
    ELSE << [type |-> "transfer", amount |-> -Unwrap(field), denom |-> denom, to |-> marker_address],
            [type |-> "burn", amount |-> -Unwrap(field), denom |-> denom, to |-> marker_address] >>

CapitalMessages(field, subscription) ==
    IF field = None \/ field = Some(0) THEN << >>
    ELSE IF Unwrap(field) > 0
    THEN << [type |-> "send", amount |-> Unwrap(field), denom |-> state.capital_denom,
             to |-> subscription] >>
    ELSE << [type |-> "send", amount |-> -Unwrap(field), denom |-> state.capital_denom,
             to |-> state.gp] >>

ExchangeMessages(exchange, subscription) ==
    FieldMessages(exchange.commitment_in_shares, state.commitment_denom, subscription)
    \o FieldMessages(exchange.investment, state.investment_denom, subscription)
    \o CapitalMessages(exchange.capital, subscription)

RECURSIVE AllExchangeMessages(_, _, _)
AllExchangeMessages(exchanges, i, subscription) ==
    IF i > Len(exchanges) THEN << >>
    ELSE ExchangeMessages(exchanges[i], subscription)
         \o AllExchangeMessages(exchanges, i + 1, subscription)

\* try_complete_asset_exchange without the check of the dates
CompleteUngated(store, sender, exchanges, now) ==
    LET known == sender \in DOMAIN store.asset_exchange
        acc == RemoveExchanges([queue |-> IF known THEN QueueOf(store, sender)
                                          ELSE << >>,
                                err |-> ""],
                               exchanges, 1)
    IN  IF acc.err # "" THEN contract_error(store, acc.err)
        ELSE Ok(IF known
                THEN [store EXCEPT !.asset_exchange[sender] = StoredQueue(acc.queue)]
                ELSE store,
                AllExchangeMessages(exchanges, 1, sender), << >>)

try_complete_asset_exchange(store, sender, exchanges, now) ==
    IF \E i \in 1 .. Len(exchanges) :
           IsSome(exchanges[i].date) /\ Unwrap(exchanges[i].date) > now
    THEN contract_error(store, "not yet available")
    ELSE LET known == sender \in DOMAIN store.asset_exchange
             acc == RemoveExchanges([queue |-> IF known THEN QueueOf(store, sender)
                                               ELSE << >>,
                                     err |-> ""],
                                    exchanges, 1)
         IN  IF acc.err # "" THEN contract_error(store, acc.err)
             ELSE Ok(IF known
                     THEN [store EXCEPT !.asset_exchange[sender] = StoredQueue(acc.queue)]
                     ELSE store,
                     AllExchangeMessages(exchanges, 1, sender), << >>)

-----------------------------------------------------------------------------
(* Redemption ledger: IssueRedemptions, CancelRedemptions, ClaimRedemption *)

\* try_issue_redemptions without the check of the sender
IssueRedemptionsByAnyone(store, sender, redemptions) ==
    LET existing == store.outstanding
        appended == IF IsSome(existing) THEN redemptions \o Unwrap(existing)
                    ELSE redemptions
    IN  Ok([store EXCEPT !.outstanding = Some(appended)], << >>, << >>)

\* try_issue_redemptions storing the batch for whoever sends it, keeping the
\* error for a sender other than gp out of the way of the save
IssueRedemptionsBeforeCheck(store, sender, redemptions) ==
    LET existing == store.outstanding
        appended == IF IsSome(existing) THEN redemptions \o Unwrap(existing)
                    ELSE redemptions
    IN  IF sender # state.gp
        THEN contract_error([store EXCEPT !.outstanding = Some(appended)],
                            "only gp can issue redemptions")
        ELSE Ok([store EXCEPT !.outstanding = Some(appended)], << >>, << >>)

try_issue_redemptions(store, sender, redemptions) ==
    IF sender # state.gp
    THEN contract_error(store, "only gp can issue redemptions")
    ELSE LET existing == store.outstanding
             appended == IF IsSome(existing) THEN redemptions \o Unwrap(existing)
                         ELSE redemptions
         IN  Ok([store EXCEPT !.outstanding = Some(appended)], << >>, << >>)

\* SameRedemption without the comparison of the subscription
SameAssetAndCapital(it, subscription, asset, capital) ==
    it.asset = asset /\ it.capital = capital

\* the match of CancelRedemptions and ClaimRedemption: subscription, asset, capital
SameRedemption(it, subscription, asset, capital) ==
    it.subscription = subscription /\ it.asset = asset /\ it.capital = capital

\* CancelLoop matching a record on all its fields, available_epoch_seconds too
RECURSIVE CancelLoopExactRecord(_, _, _)
CancelLoopExactRecord(acc, redemptions, i) ==
    IF i > Len(redemptions) \/ acc.err # "" THEN acc
    ELSE LET index == position([k \in 1 .. Len(acc.existing) |->
                                   acc.existing[k] = redemptions[i]])
         IN  IF index = 0
             THEN [acc EXCEPT !.err = "no redemption found"]
             ELSE CancelLoopExactRecord([acc EXCEPT !.existing = RemoveAt(@, index)],
                                        redemptions, i + 1)

\* the loop of CancelRedemptions; acc is [existing, err]
RECURSIVE CancelLoop(_, _, _)
CancelLoop(acc, redemptions, i) ==
    IF i > Len(redemptions) \/ acc.err # "" THEN acc
    ELSE LET index == position([k \in 1 .. Len(acc.existing) |->
                                   SameRedemption(acc.existing[k], redemptions[i].subscription,
                                                  redemptions[i].asset, redemptions[i].capital)])
         IN  IF index = 0
             THEN [acc EXCEPT !.err = "no redemption found"]
             ELSE CancelLoop([acc EXCEPT !.existing = RemoveAt(@, index)], redemptions, i + 1)

try_cancel_redemptions(store, sender, redemptions) ==
    IF sender # state.gp
    THEN contract_error(store, "only gp can cancel redemptions")
    ELSE IF store.outstanding = None
    THEN contract_error(store, "no outstanding redemptions to cancel")
    ELSE LET acc == CancelLoop([existing |-> Unwrap(store.outstanding), err |-> ""],
                               redemptions, 1)
         IN  IF acc.err # "" THEN contract_error(store, acc.err)
             ELSE Ok([store EXCEPT !.outstanding = Some(acc.existing)], << >>, << >>)

\* try_claim_redemption turning a claim down also at the very second the
\* redemption becomes available
ClaimGateInclusive(store, sender, asset, capital, to, memo, funds, now, marker) ==
    IF store.outstanding = None
    THEN contract_error(store, "outstanding redemptions not found")
    ELSE LET redemptions == Unwrap(store.outstanding)
             index == position([k \in 1 .. Len(redemptions) |->
                                   SameRedemption(redemptions[k], sender, asset, capital)])
         IN  IF index = 0
             THEN contract_error(store, "no redemption for subscription")
             ELSE LET redemption == redemptions[index]
                      remaining == RemoveAt(redemptions, index)
                      saved == [store EXCEPT !.outstanding = Some(remaining)]
                  IN  IF IsSome(redemption.available_epoch_seconds)
                         /\ Unwrap(redemption.available_epoch_seconds) >= now
                      THEN contract_error(store, "redemption not yet available")
                      ELSE IF Len(funds) = 0
                      THEN contract_error(store, "asset required for redemption")
                      ELSE IF funds[1].denom # state.investment_denom
                      THEN contract_error(store, "payment should be made in investment denom")
                      ELSE IF funds[1].amount # redemption.asset
                      THEN contract_error(store, "sent funds should match specified asset")
                      ELSE IF marker = None
                      THEN contract_error(saved, "marker query failed")
                      ELSE Ok(saved,
                              << [type |-> "send", amount |-> redemption.capital,
                                  denom |-> state.capital_denom, to |-> to],
                                 [type |-> "send", amount |-> redemption.asset,
                                  denom |-> state.investment_denom, to |-> Unwrap(marker)],
                                 [type |-> "burn", amount |-> redemption.asset,
                                  denom |-> state.investment_denom, to |-> Unwrap(marker)] >>,
                              IF IsSome(memo)
                              THEN << [key |-> "memo", value |-> Unwrap(memo)] >>
                              ELSE << >>)

\* funds: the coins attached; now: env.block.time.seconds();
\* marker: the marker query's answer (None when it fails)
try_claim_redemption(store, sender, asset, capital, to, memo, funds, now, marker) ==
    IF store.outstanding = None
    THEN contract_error(store, "outstanding redemptions not found")
    ELSE LET redemptions == Unwrap(store.outstanding)
             index == position([k \in 1 .. Len(redemptions) |->
                                   SameRedemption(redemptions[k], sender, asset, capital)])
         IN  IF index = 0
             THEN contract_error(store, "no redemption for subscription")
             ELSE LET redemption == redemptions[index]
                      remaining == RemoveAt(redemptions, index)
                      saved == [store EXCEPT !.outstanding = Some(remaining)]
                  IN  IF IsSome(redemption.available_epoch_seconds)
                         /\ Unwrap(redemption.available_epoch_seconds) > now
                      THEN contract_error(store, "redemption not yet available")
                      ELSE IF Len(funds) = 0
                      THEN contract_error(store, "asset required for redemption")
                      ELSE IF funds[1].denom # state.investment_denom
                      THEN contract_error(store, "payment should be made in investment denom")
                      ELSE IF funds[1].amount # redemption.asset
                      THEN contract_error(store, "sent funds should match specified asset")
                      ELSE IF marker = None
                      THEN contract_error(saved, "marker query failed")
                      ELSE Ok(saved,
                              << [type |-> "send", amount |-> redemption.capital,
                                  denom |-> state.capital_denom, to |-> to],
                                 [type |-> "send", amount |-> redemption.asset,
                                  denom |-> state.investment_denom, to |-> Unwrap(marker)],
                                 [type |-> "burn", amount |-> redemption.asset,
                                  denom |-> state.investment_denom, to |-> Unwrap(marker)] >>,
                              IF IsSome(memo)
                              THEN << [key |-> "memo", value |-> Unwrap(memo)] >>
                              ELSE << >>)

-----------------------------------------------------------------------------
(* Inputs *)

\* State::test_default, with and without an accreditation gate
Configs ==
    {[gp |-> gp, capital_per_share |-> capital_per_share,
      acceptable_accreditations |-> a,
      commitment_denom |-> "commitment_coin", investment_denom |-> "investment_coin",
      capital_denom |-> "stable_coin"] : a \in SUBSET Accreditations}

Senders == {gp, bad_actor}

AcceptSubscription == [subscription : Addrs, commitment_in_capital : Amounts]

AcceptBatches == SeqsUpTo(AcceptSubscription, MaxBatch)

CloseBatches == NoDupSeqs(Addrs, MaxBatch)

\* the exchange of the close test, and the entry an accept of 20000 stores
IssuedExchange ==
    [investment |-> Some(1000), commitment_in_shares |-> Some(-1000),
     capital |-> Some(-1000), date |-> None]

AcceptedExchange ==
    [investment |-> None, commitment_in_shares |-> Some(200), capital |-> None, date |-> None]

ExchangeBatches == SeqsUpTo({IssuedExchange}, 1)

SettleBatches == SeqsUpTo({IssuedExchange, AcceptedExchange}, 1)

Redemption ==
    [subscription : {1}, capital : {10000}, asset : {5000},
     available_epoch_seconds : {None}]

RedemptionBatches == SeqsUpTo(Redemption, 1)

Times == {1}

FundsSent == {<< >>, << [denom |-> "investment_coin", amount |-> 5000] >>}

MarkerAnswers == {None, Some(marker_address)}

-----------------------------------------------------------------------------------------------------------------------------------------------------
(* A handler runs to its return on the storage of the last finished        *)
(* transaction; the host then finishes the transaction                     *)

\* no transaction is running: no handler has returned without the host having
\* finished, and no sub-message awaits its reply
Idle == call = None /\ inflight = None

\* the handler has returned res: the storage is as the handler wrote it
Call(op, sender, args, answers, res) ==
    /\ call' = Some([op |-> op, sender |-> sender, args |-> args, answers |-> answers,
                     ok |-> res.ok, err |-> res.err, pre |-> Store,
                     msgs |-> res.msgs, attributes |-> res.attributes])
    /\ pending' = res.store.pending
    /\ eligible' = res.store.eligible
    /\ accepted' = res.store.accepted
    /\ asset_exchange_storage' = res.store.asset_exchange
    /\ outstanding_redemptions' = res.store.outstanding
    /\ state' = state
    /\ was_accepted' = was_accepted

\* the reply id of the instantiate sub-message among msgs, None without one
SubMessage(msgs) ==
    IF Len(msgs) > 0 /\ msgs[1].type = "instantiate" THEN Some(msgs[1].id) ELSE None

\* the host finishes the transaction: on Ok it keeps the writes and dispatches
\* the sub-message; on Err it restores the storage the handler was called on
HostFinish ==
    /\ call # None
    /\ LET c == Unwrap(call)
       IN  /\ pending' = IF c.ok THEN pending ELSE c.pre.pending
           /\ eligible' = IF c.ok THEN eligible ELSE c.pre.eligible
           /\ accepted' = IF c.ok THEN accepted ELSE c.pre.accepted
           /\ asset_exchange_storage' =
                  IF c.ok THEN asset_exchange_storage ELSE c.pre.asset_exchange
           /\ outstanding_redemptions' =
                  IF c.ok THEN outstanding_redemptions ELSE c.pre.outstanding
           /\ inflight' = IF c.ok /\ c.op = "propose_subscription"
                          THEN SubMessage(c.msgs) ELSE inflight
           /\ was_accepted' = IF c.ok THEN was_accepted \cup accepted ELSE was_accepted
    /\ call' = None
    /\ UNCHANGED <<state, instantiated>>

Init ==
    /\ state \in Configs
    /\ pending = {}
    /\ eligible = {}
    /\ accepted = {}
    /\ asset_exchange_storage = [a \in Addrs |-> None]
    /\ outstanding_redemptions = None
    /\ instantiated = 0
    /\ inflight = None
    /\ call = None
    /\ was_accepted = {}

-----
(* Actions: one per entry point *)

ProposeSubscription ==
    /\ Idle
    /\ instantiated < MaxSubs
    /\ \E sender \in Senders :
       \E answer \in IF state.acceptable_accreditations = {} THEN {None}
                      ELSE AttributeAnswers :
          LET res == try_propose_subscription(Store, sender, answer)
          IN  /\ Call("propose_subscription", sender, << >>, answer, res)
              /\ UNCHANGED <<instantiated, inflight>>

\* the host instantiates the subscription at a fresh address and delivers the reply
Reply ==
    /\ call = None
    /\ inflight # None
    /\ LET address == instantiated + 1
           res == try_reply(Store, Unwrap(inflight), address)
       IN  /\ Call("reply", address, << Unwrap(inflight) >>, << >>, res)
           /\ instantiated' = instantiated + 1
           /\ inflight' = None

\* the instantiation fails: the host rolls the transaction back
InstantiateFailed ==
    /\ inflight # None
    /\ inflight' = None
    /\ call = None
    /\ UNCHANGED <<state, pending, eligible, accepted, asset_exchange_storage,
                   outstanding_redemptions, instantiated, call, was_accepted>>

CloseSubscriptions ==
    /\ Idle
    /\ \E sender \in Senders, subscriptions \in CloseBatches :
       \E balances \in [IF sender = gp THEN Range(subscriptions) \cap accepted ELSE {}
                         -> BalanceAnswers] :
          /\ Call("close_subscriptions", sender, subscriptions, balances,
                  try_close_subscriptions(Store, sender, subscriptions, balances))
          /\ UNCHANGED <<instantiated, inflight>>

\* answers: what the attribute service would say of the lp of each named
\* subscription that is pending or eligible, were it asked
AcceptSubscriptions ==
    /\ Idle
    /\ \E sender \in Senders, accepts \in AcceptBatches :
       \E answers \in [IF sender = gp /\ state.acceptable_accreditations # {}
                        THEN {accepts[i].subscription : i \in 1 .. Len(accepts)}
                                 \cap (pending \cup eligible)
                        ELSE {}
                        -> AttributeAnswers] :
          /\ Call("accept_subscriptions", sender, accepts, answers,
                  try_accept_subscriptions(Store, sender, accepts, answers))
          /\ UNCHANGED <<instantiated, inflight>>

IssueAssetExchanges ==
    /\ Idle
    /\ \E sender \in Senders, subscription \in Addrs, exchanges \in ExchangeBatches :
          /\ Len(QueueOf(Store, subscription)) + Len(exchanges) <= MaxQueue
          /\ Call("issue_asset_exchanges", sender, << subscription, exchanges >>, << >>,
                  try_issue_asset_exchanges(Store, sender, subscription, exchanges))
          /\ UNCHANGED <<instantiated, inflight>>

CancelAssetExchanges ==
    /\ Idle
    /\ \E sender \in Senders, subscription \in Addrs, exchanges \in SettleBatches :
          /\ Call("cancel_asset_exchanges", sender, << subscription, exchanges >>, << >>,
                  try_cancel_asset_exchanges(Store, sender, subscription, exchanges))
          /\ UNCHANGED <<instantiated, inflight>>

CompleteAssetExchange ==
    /\ Idle
    /\ \E sender \in Addrs \cup {bad_actor}, exchanges \in SettleBatches, now \in Times :
          /\ Call("complete_asset_exchange", sender, << exchanges >>, now,
                  try_complete_asset_exchange(Store, sender, exchanges, now))
          /\ UNCHANGED <<instantiated, inflight>>

IssueRedemptions ==
    /\ Idle
    /\ \E sender \in Senders, redemptions \in RedemptionBatches :
          /\ Len(IF IsSome(outstanding_redemptions) THEN Unwrap(outstanding_redemptions)
                 ELSE << >>) + Len(redemptions) <= MaxRedemptions
          /\ Call("issue_redemptions", sender, redemptions, << >>,
                  try_issue_redemptions(Store, sender, redemptions))
          /\ UNCHANGED <<instantiated, inflight>>

CancelRedemptions ==
    /\ Idle
    /\ \E sender \in Senders, redemptions \in RedemptionBatches :
          /\ Call("cancel_redemptions", sender, redemptions, << >>,
                  try_cancel_redemptions(Store, sender, redemptions))
          /\ UNCHANGED <<instantiated, inflight>>

ClaimRedemption ==
    /\ Idle
    /\ \E sender \in Addrs \cup {bad_actor}, r \in Redemption, funds \in FundsSent,
          now \in Times, marker \in MarkerAnswers :
          /\ Call("claim_redemption", sender, << r.asset, r.capital, destination >>,
                  << funds, now, marker >>,
                  try_claim_redemption(Store, sender, r.asset, r.capital, destination,
                                       Some("note"), funds, now, marker))
          /\ UNCHANGED <<instantiated, inflight>>

Next ==
    \/ ProposeSubscription
    \/ Reply
    \/ InstantiateFailed
    \/ CloseSubscriptions
    \/ AcceptSubscriptions
    \/ IssueAssetExchanges
    \/ CancelAssetExchanges
    \/ CompleteAssetExchange
    \/ IssueRedemptions
    \/ CancelRedemptions
    \/ ClaimRedemption
    \/ HostFinish

Spec == Init /\ [][Next]_vars

-----------------------------------------------------------------------------
(* The redemption ledger on its own, with the records, funds and block     *)
(* times that tell its cases apart                                         *)

sub_1 == 1

sub_2 == 2

\* the record of the tests, the same record available only from Feb 01 2023,
\* and records differing from it in the subscription, the asset or the capital
LedgerRedemptions ==
    {[subscription |-> sub_1, capital |-> 10000, asset |-> 5000,
      available_epoch_seconds |-> None],
     [subscription |-> sub_1, capital |-> 10000, asset |-> 5000,
      available_epoch_seconds |-> Some(1675209600)],
     [subscription |-> sub_2, capital |-> 10000, asset |-> 5000,
      available_epoch_seconds |-> None],
     [subscription |-> sub_1, capital |-> 10000, asset |-> 6000,
      available_epoch_seconds |-> None],
     [subscription |-> sub_1, capital |-> 20000, asset |-> 5000,
      available_epoch_seconds |-> None]}

LedgerBatches == SeqsUpTo(LedgerRedemptions, MaxIssue)

\* Jan 01 2023, Feb 01 2023 and the second after it
LedgerTimes == {1672531200, 1675209600, 1675209601}

\* no coin; the asset in investment coin; another amount; another denom; two
\* coins with the asset first; two coins with the asset second
LedgerFunds ==
    {<< >>,
     << [denom |-> "investment_coin", amount |-> 5000] >>,
     << [denom |-> "investment_coin", amount |-> 6000] >>,
     << [denom |-> "stable_coin", amount |-> 5000] >>,
     << [denom |-> "investment_coin", amount |-> 5000],
        [denom |-> "stable_coin", amount |-> 10000] >>,
     << [denom |-> "stable_coin", amount |-> 10000],
        [denom |-> "investment_coin", amount |-> 5000] >>}

\* the list stored, empty when there is none
OutstandingOf(store) ==
    IF IsSome(store.outstanding) THEN Unwrap(store.outstanding) ELSE << >>

LedgerIssueRedemptions ==
    /\ Idle
    /\ \E sender \in Senders, redemptions \in LedgerBatches :
          /\ Len(OutstandingOf(Store)) + Len(redemptions) <= MaxOutstanding
          /\ Call("issue_redemptions", sender, redemptions, << >>,
                  try_issue_redemptions(Store, sender, redemptions))
          /\ UNCHANGED <<instantiated, inflight>>

LedgerCancelRedemptions ==
    /\ Idle
    /\ \E sender \in Senders, redemptions \in LedgerBatches :
          /\ Call("cancel_redemptions", sender, redemptions, << >>,
                  try_cancel_redemptions(Store, sender, redemptions))
          /\ UNCHANGED <<instantiated, inflight>>

LedgerClaimRedemption ==
    /\ Idle
    /\ \E sender \in {sub_1, sub_2, bad_actor}, r \in LedgerRedemptions,
          funds \in LedgerFunds, now \in LedgerTimes, marker \in MarkerAnswers :
          /\ Call("claim_redemption", sender, << r.asset, r.capital, destination >>,
                  << funds, now, marker >>,
                  try_claim_redemption(Store, sender, r.asset, r.capital, destination,
                                       Some("note"), funds, now, marker))
          /\ UNCHANGED <<instantiated, inflight>>

LedgerNext ==
    \/ LedgerIssueRedemptions
    \/ LedgerCancelRedemptions
    \/ LedgerClaimRedemption
    \/ HostFinish

LedgerSpec == Init /\ [][LedgerNext]_vars

-----------------------------------------------------------------------------
(* The asset-exchange queues on their own, on a raise without accreditation *)
(* gate, with entries that differ in their date only                       *)

\* the exchange of the close test, the same exchange dated Feb 01 2023, and
\* the entry an accept of 20000 stores
Exchanges ==
    {IssuedExchange,
     [IssuedExchange EXCEPT !.date = Some(1675209600)],
     AcceptedExchange}

QueueBatches == SeqsUpTo(Exchanges, MaxBatch)

\* Jan 01 2023 and Feb 01 2023
QueueTimes == {1672531200, 1675209600}

QueueInit == Init /\ state.acceptable_accreditations = {}

\* gp accepts one subscription for 20000
QueueAcceptSubscription ==
    /\ Idle
    /\ \E subscription \in Addrs :
          LET accepts == << [subscription |-> subscription,
                             commitment_in_capital |-> 20000] >>
              answers == [s \in {} |-> None]
          IN  /\ Call("accept_subscriptions", gp, accepts, answers,
                      try_accept_subscriptions(Store, gp, accepts, answers))
              /\ UNCHANGED <<instantiated, inflight>>

QueueIssueAssetExchanges ==
    /\ Idle
    /\ \E sender \in Senders, subscription \in {sub_1, sub_2}, exchanges \in QueueBatches :
          /\ Len(QueueOf(Store, subscription)) + Len(exchanges) <= MaxExchanges
          /\ Call("issue_asset_exchanges", sender, << subscription, exchanges >>, << >>,
                  try_issue_asset_exchanges(Store, sender, subscription, exchanges))
          /\ UNCHANGED <<instantiated, inflight>>

QueueCancelAssetExchanges ==
    /\ Idle
    /\ \E sender \in Senders, subscription \in {sub_1, sub_2}, exchanges \in QueueBatches :
          /\ Call("cancel_asset_exchanges", sender, << subscription, exchanges >>, << >>,
                  try_cancel_asset_exchanges(Store, sender, subscription, exchanges))
          /\ UNCHANGED <<instantiated, inflight>>

QueueCompleteAssetExchange ==
    /\ Idle
    /\ \E sender \in {sub_1, sub_2, bad_actor}, exchanges \in QueueBatches,
          now \in QueueTimes :
          /\ Call("complete_asset_exchange", sender, << exchanges >>, now,
                  try_complete_asset_exchange(Store, sender, exchanges, now))
          /\ UNCHANGED <<instantiated, inflight>>

QueueNext ==
    \/ ProposeSubscription
    \/ Reply
    \/ QueueAcceptSubscription
    \/ QueueIssueAssetExchanges
    \/ QueueCancelAssetExchanges
    \/ QueueCompleteAssetExchange
    \/ HostFinish

QueueSpec == QueueInit /\ [][QueueNext]_vars

-----------------------------------------------------------------------------
(* Properties *)

\* the call that has just returned (only where call # None)
c == Unwrap(call)

Returned(op) == call # None /\ c.op = op

\* the subscriptions named by a batch of AcceptSubscription
Named(accepts) == {accepts[i].subscription : i \in 1 .. Len(accepts)}

Disjoint(p, e, a) == p \cap e = {} /\ p \cap a = {} /\ e \cap a = {}

\* C1: in every reachable state pending, eligible and accepted are pairwise
\* disjoint (also in the storage a handler leaves when it returns).
C1_RegistryDisjoint == Disjoint(pending, eligible, accepted)

\* an accept has moved a subscription into accepted while another one waits
C1_Witness ==
    /\ Returned("accept_subscriptions") /\ c.ok
    /\ accepted # {}
    /\ pending \cup eligible # {}

\* C2: in every state of the contract (the storage of a finished transaction,
\* or the storage a successful handler returns), a subscription whose queue is
\* present and non-empty is in accepted; a successful accept changes a queue
\* only of a subscription it has in accepted, and a successful close leaves no
\* queue to a subscription it removed from accepted.
C2_QueueOnlyIfAccepted ==
    (call = None \/ c.ok) =>
        /\ \A s \in Addrs :
              (IsSome(asset_exchange_storage[s]) /\ Unwrap(asset_exchange_storage[s]) # << >>)
                  => s \in accepted
        /\ Returned("accept_subscriptions") =>
              \A s \in Addrs :
                  asset_exchange_storage[s] # c.pre.asset_exchange[s] => s \in accepted
        /\ Returned("close_subscriptions") =>
              \A s \in c.pre.accepted \ accepted : asset_exchange_storage[s] = None

\* a close has removed one accepted subscription while another keeps its queue
C2_Witness ==
    /\ Returned("close_subscriptions") /\ c.ok
    /\ c.pre.accepted \ accepted # {}
    /\ \E s \in accepted : IsSome(asset_exchange_storage[s])

\* C3: after a successful AcceptSubscriptions each entry's subscription has its
\* queue of before the call with exactly one entry appended, {None,
\* Some(commitment_in_capital / capital_per_share), None, None}; the queue of a
\* subscription outside the batch is unchanged.
C3_AcceptAppendsOneEntry ==
    (Returned("accept_subscriptions") /\ c.ok) =>
        /\ \A i \in 1 .. Len(c.args) :
              asset_exchange_storage[c.args[i].subscription] =
                  Some(Append(QueueOf(c.pre, c.args[i].subscription),
                              [investment |-> None,
                               commitment_in_shares |->
                                   Some(c.args[i].commitment_in_capital
                                        \div state.capital_per_share),
                               capital |-> None, date |-> None]))
        /\ \A s \in Addrs \ Named(c.args) :
              asset_exchange_storage[s] = c.pre.asset_exchange[s]

\* an accept of two subscriptions has succeeded
C3_Witness ==
    /\ Returned("accept_subscriptions") /\ c.ok
    /\ Len(c.args) = 2

\* C4: after a successful AcceptSubscriptions by gp every subscription named in
\* the batch is in accepted and in neither pending nor eligible; the membership
\* of every other address is unchanged.
C4_AcceptMovesBatch ==
    (Returned("accept_subscriptions") /\ c.ok) =>
        /\ c.sender = state.gp
        /\ \A s \in Named(c.args) :
              s \in accepted /\ s \notin pending /\ s \notin eligible
        /\ \A s \in Addrs \ Named(c.args) :
              /\ (s \in pending) = (s \in c.pre.pending)
              /\ (s \in eligible) = (s \in c.pre.eligible)
              /\ (s \in accepted) = (s \in c.pre.accepted)

\* an accept has taken a pending subscription while one it does not name stays
\* where it was
C4_Witness ==
    /\ Returned("accept_subscriptions") /\ c.ok
    /\ Named(c.args) \cap c.pre.pending # {}
    /\ (c.pre.pending \cup c.pre.eligible \cup c.pre.accepted) \ Named(c.args) # {}

\* C5: when AcceptSubscriptions returns an error it has written no
\* asset-exchange queue and no registry set.
C5_FailedAcceptWritesNothing ==
    (Returned("accept_subscriptions") /\ ~c.ok) => Store = c.pre

\* C6: when CloseSubscriptions returns an error it has removed no subscription
\* from pending, eligible or accepted and deleted no asset-exchange queue.
C6_FailedCloseWritesNothing ==
    (Returned("close_subscriptions") /\ ~c.ok) => Store = c.pre

\* C7: a subscription leaves accepted only in a CloseSubscriptions call during
\* which the bank reports a zero commitment balance for it; a close that names
\* an accepted subscription with a non-zero balance returns an error and leaves
\* accepted unchanged.
C7_CloseOnlyAtZeroBalance ==
    call # None =>
        /\ \A s \in c.pre.accepted \ accepted :
              /\ c.op = "close_subscriptions"
              /\ s \in DOMAIN c.answers
              /\ c.answers[s] = Some(0)
        /\ (c.op = "close_subscriptions"
            /\ \E s \in Range(c.args) \cap c.pre.accepted \cap DOMAIN c.answers :
                   IsSome(c.answers[s]) /\ c.answers[s] # Some(0))
           => (~c.ok /\ accepted = c.pre.accepted)

\* gp closes an accepted subscription that still holds commitment
C7_Witness ==
    /\ Returned("close_subscriptions")
    /\ c.sender = state.gp
    /\ c.err = "sub still has remaining commitment"
    /\ accepted # {}

\* C8: after a successful CloseSubscriptions by gp every subscription of the
\* batch is in none of the three sets, and the queue key of each one that was
\* in accepted is absent, whatever the queue held before.
C8_CloseRemovesBatch ==
    (Returned("close_subscriptions") /\ c.ok) =>
        /\ c.sender = state.gp
        /\ \A s \in Range(c.args) :
              /\ s \notin pending \cup eligible \cup accepted
              /\ s \in c.pre.accepted => asset_exchange_storage[s] = None

\* a close has taken an accepted subscription whose queue held an entry
C8_Witness ==
    /\ Returned("close_subscriptions") /\ c.ok
    /\ \E s \in Range(c.args) \cap c.pre.accepted : QueueOf(c.pre, s) # << >>

\* the subscriptions the loop of a close visits before index i all close
ClosableBefore(i) ==
    \A j \in 1 .. i - 1 :
        \/ c.args[j] \in c.pre.pending \cup c.pre.eligible
        \/ c.args[j] \in c.pre.accepted /\ c.answers[c.args[j]] = Some(0)

\* C9: CloseSubscriptions by gp naming an address that is in none of pending,
\* eligible, accepted returns an error; the error is "no subscription pending
\* or accepted to close" when the loop reaches that address.
C9_CloseUnknownFails ==
    (Returned("close_subscriptions") /\ c.sender = state.gp) =>
        \A i \in 1 .. Len(c.args) :
            c.args[i] \notin c.pre.pending \cup c.pre.eligible \cup c.pre.accepted =>
                /\ ~c.ok
                /\ ClosableBefore(i) => c.err = "no subscription pending or accepted to close"

\* gp closes a batch whose second address is in no set, the first being pending
C9_Witness ==
    /\ Returned("close_subscriptions")
    /\ c.sender = state.gp
    /\ Len(c.args) = 2
    /\ c.args[1] \in c.pre.pending
    /\ c.args[2] \notin c.pre.pending \cup c.pre.eligible \cup c.pre.accepted

GpRestricted ==
    {"close_subscriptions", "accept_subscriptions", "issue_redemptions", "cancel_redemptions"}

\* C10: a gp-restricted handler called by a sender other than config.gp returns
\* an error and changes no set, no queue and not the redemption list, whatever
\* its argument.
C10_OnlyGp ==
    (call # None /\ c.op \in GpRestricted /\ c.sender # state.gp) =>
        (~c.ok /\ Store = c.pre)

\* an outsider calls IssueRedemptions with an empty batch on a live registry
C10_Witness ==
    /\ Returned("issue_redemptions")
    /\ c.sender # state.gp
    /\ c.args = << >>
    /\ accepted # {}

\* entry i of the accept that has returned is an exact multiple of capital_per_share
Divisible(i) == c.args[i].commitment_in_capital % state.capital_per_share = 0

\* entry i names a subscription that the loop finds pending or eligible: it was
\* so before the call and no earlier entry names it
FoundWaiting(i) ==
    /\ c.args[i].subscription \in c.pre.pending \cup c.pre.eligible
    /\ \A j \in 1 .. i - 1 : c.args[j].subscription # c.args[i].subscription

\* entry i names a pending subscription whose lp the gate turns down
TurnedDown(i) ==
    /\ state.acceptable_accreditations # {}
    /\ c.args[i].subscription \in c.pre.pending
    /\ \/ c.answers[c.args[i].subscription] = None
       \/ Unwrap(c.answers[c.args[i].subscription]) \cap state.acceptable_accreditations = {}

\* the loop of an accept gets past every entry before index i
AcceptableBefore(i) ==
    \A j \in 1 .. i - 1 : Divisible(j) /\ FoundWaiting(j) /\ ~TurnedDown(j)

\* C11: AcceptSubscriptions by gp returns an error whenever some entry's
\* commitment_in_capital is not an exact multiple of capital_per_share, and
\* every queue entry an accept writes (also one written before a later entry
\* fails) has commitment_in_shares * capital_per_share = commitment_in_capital
\* of an entry of the batch naming that subscription.
C11_AcceptOnlyMultiples ==
    (Returned("accept_subscriptions") /\ c.sender = state.gp) =>
        /\ (\E i \in 1 .. Len(c.args) : ~Divisible(i)) => ~c.ok
        /\ \A s \in Addrs :
              asset_exchange_storage[s] # c.pre.asset_exchange[s] =>
                  \E i \in 1 .. Len(c.args) :
                      /\ c.args[i].subscription = s
                      /\ IsSome(asset_exchange_storage[s])
                      /\ LET queue == Unwrap(asset_exchange_storage[s])
                         IN  /\ queue # << >>
                             /\ IsSome(queue[Len(queue)].commitment_in_shares)
                             /\ Unwrap(queue[Len(queue)].commitment_in_shares)
                                    * state.capital_per_share
                                = c.args[i].commitment_in_capital

\* gp accepts a batch whose first entry is enqueued and whose second entry is
\* not a multiple of capital_per_share
C11_Witness ==
    /\ Returned("accept_subscriptions")
    /\ c.sender = state.gp
    /\ Len(c.args) = 2
    /\ Divisible(1) /\ ~Divisible(2)
    /\ asset_exchange_storage[c.args[1].subscription]
           # c.pre.asset_exchange[c.args[1].subscription]
    /\ c.err = "accept amount must be evenly divisble by capital per share"

\* C12: AcceptSubscriptions by gp returns an error when an entry names a
\* subscription that is in neither pending nor eligible when the loop comes to
\* it (already accepted, never proposed, or named by an earlier entry of the
\* batch); the error is "subscription must either be pending or eligible" when
\* the loop reaches that entry and its amount is a multiple.
C12_AcceptUnknownFails ==
    (Returned("accept_subscriptions") /\ c.sender = state.gp) =>
        \A i \in 1 .. Len(c.args) :
            ~FoundWaiting(i) =>
                /\ ~c.ok
                /\ (AcceptableBefore(i) /\ Divisible(i))
                       => c.err = "subscription must either be pending or eligible"

\* gp accepts a subscription that is already accepted, after one that waits
C12_Witness ==
    /\ Returned("accept_subscriptions")
    /\ c.sender = state.gp
    /\ Len(c.args) = 2
    /\ FoundWaiting(1)
    /\ c.args[2].subscription \in c.pre.accepted
    /\ c.err = "subscription must either be pending or eligible"

\* C13: with a non-empty acceptable_accreditations, an accept moves a pending
\* subscription to accepted (or writes its queue) only if the attributes
\* reported for its lp intersect acceptable_accreditations, and an accept by gp
\* naming a pending subscription whose lp has none of them (or whose query
\* fails) returns an error; a batch of eligible subscriptions with multiples
\* as amounts is accepted whatever the attribute service would answer.
C13_PendingNeedsAccreditation ==
    (Returned("accept_subscriptions") /\ state.acceptable_accreditations # {}) =>
        /\ \A s \in c.pre.pending :
              (s \in accepted \/ asset_exchange_storage[s] # c.pre.asset_exchange[s]) =>
                  /\ IsSome(c.answers[s])
                  /\ Unwrap(c.answers[s]) \cap state.acceptable_accreditations # {}
        /\ (c.sender = state.gp /\ \E i \in 1 .. Len(c.args) : TurnedDown(i)) => ~c.ok
        /\ (/\ c.sender = state.gp
            /\ \A i \in 1 .. Len(c.args) :
                   /\ Divisible(i) /\ FoundWaiting(i)
                   /\ c.args[i].subscription \in c.pre.eligible)
           => (c.ok /\ Named(c.args) \subseteq accepted)

\* under the gate, one accept takes a pending subscription whose lp holds an
\* accreditation and an eligible one whose lp holds none any more
C13_Witness ==
    /\ Returned("accept_subscriptions") /\ c.ok
    /\ state.acceptable_accreditations # {}
    /\ \E s \in Named(c.args) \cap c.pre.pending :
           Unwrap(c.answers[s]) \cap state.acceptable_accreditations # {}
    /\ \E s \in Named(c.args) \cap c.pre.eligible :
           c.answers[s] = None \/ c.answers[s] = Some({})

\* the sender of the propose that has returned is eligible
ProposedEligible ==
    \/ state.acceptable_accreditations = {}
    \/ Unwrap(c.answers) \cap state.acceptable_accreditations # {}

\* C14: ProposeSubscription changes none of pending, eligible, accepted (nor
\* anything else stored); when the attribute query answers (or the gate is
\* empty) it succeeds with exactly one instantiate sub-message, of reply id 1
\* when acceptable_accreditations is empty or the sender's attributes intersect
\* it and 0 otherwise, and the one attribute eligible with the same boolean.
C14_ProposeTagsEligibility ==
    Returned("propose_subscription") =>
        /\ Store = c.pre
        /\ (state.acceptable_accreditations = {} \/ IsSome(c.answers)) =>
              /\ c.ok
              /\ Len(c.msgs) = 1
              /\ c.msgs[1].type = "instantiate"
              /\ c.msgs[1].lp = c.sender
              /\ c.msgs[1].id = IF ProposedEligible THEN 1 ELSE 0
              /\ c.attributes =
                     << [key |-> "eligible",
                         value |-> IF ProposedEligible THEN "true" ELSE "false"] >>

\* under the gate, a sender holding an accreditation proposes while another
\* subscription is already pending
C14_Witness ==
    /\ Returned("propose_subscription") /\ c.ok
    /\ state.acceptable_accreditations # {}
    /\ c.msgs[1].id = 1
    /\ pending # {}

-----------------------------------------------------------------------------
(* Properties of the redemption ledger *)

\* the list outstanding before the call that has returned
Before == IF IsSome(c.pre.outstanding) THEN Unwrap(c.pre.outstanding) ELSE << >>

\* the arguments of the claim that has returned, and what the host gave it
ClaimedAsset == c.args[1]

ClaimedCapital == c.args[2]

ClaimedTo == c.args[3]

FundsOfClaim == c.answers[1]

TimeOfClaim == c.answers[2]

MarkerOfClaim == c.answers[3]

\* record k of Before is one the claim asks for
Matches(k) ==
    /\ Before[k].subscription = c.sender
    /\ Before[k].asset = ClaimedAsset
    /\ Before[k].capital = ClaimedCapital

\* the index of the first such record, as a set: empty when there is none
FirstMatch == {k \in 1 .. Len(Before) : Matches(k) /\ \A j \in 1 .. k - 1 : ~Matches(j)}

\* list with its element k taken out, the others in their order
Without(list, k) == [i \in 1 .. Len(list) - 1 |-> IF i < k THEN list[i] ELSE list[i + 1]]

\* how many times a record is in a list
Count(list, r) == Cardinality({i \in 1 .. Len(list) : list[i] = r})

\* the list stored now, empty when there is none
Outstanding ==
    IF IsSome(outstanding_redemptions) THEN Unwrap(outstanding_redemptions) ELSE << >>

\* C15: a successful ClaimRedemption{asset, capital, to} by sender removes
\* exactly one record, the first outstanding one with the sender as
\* subscription and that asset and capital, leaves every other record in its
\* order, and returns exactly three messages: send capital of capital_denom to
\* `to`, send asset of investment_denom to the marker's address, burn asset of
\* investment_denom.
C15_ClaimRemovesFirstMatch ==
    (Returned("claim_redemption") /\ c.ok) =>
        \E k \in FirstMatch :
            /\ outstanding_redemptions = Some(Without(Before, k))
            /\ Len(c.msgs) = 3
            /\ c.msgs[1].type = "send" /\ c.msgs[1].amount = ClaimedCapital
            /\ c.msgs[1].denom = state.capital_denom /\ c.msgs[1].to = ClaimedTo
            /\ c.msgs[2].type = "send" /\ c.msgs[2].amount = ClaimedAsset
            /\ c.msgs[2].denom = state.investment_denom
            /\ c.msgs[2].to = Unwrap(MarkerOfClaim)
            /\ c.msgs[3].type = "burn" /\ c.msgs[3].amount = ClaimedAsset
            /\ c.msgs[3].denom = state.investment_denom

\* a claim has succeeded on a list of three: a record of another subscription,
\* then two records it asks for that differ in when they are available
C15_Witness ==
    /\ Returned("claim_redemption") /\ c.ok
    /\ Len(Before) = 3
    /\ ~Matches(1) /\ Matches(2) /\ Matches(3)
    /\ Before[2] # Before[3]

\* C16: ClaimRedemption succeeds only if exactly one coin is attached, of
\* investment_denom and of the amount of the record's asset.
C16_ClaimNeedsExactlyOneCoin ==
    (Returned("claim_redemption") /\ c.ok) =>
        /\ Len(FundsOfClaim) = 1
        /\ FundsOfClaim[1].denom = state.investment_denom
        /\ FundsOfClaim[1].amount = ClaimedAsset

\* C17: a record whose available_epoch_seconds is set is not removed by a
\* claim at a block time before it: the claim whose first match is such a
\* record returns an error and leaves the list as it was; at a block time equal
\* to or after it the claim is not turned down as "not yet available", and
\* succeeds when the funds are the asset in investment_denom and the marker
\* query answers.
C17_ClaimTimeGate ==
    Returned("claim_redemption") =>
        /\ \A i \in 1 .. Len(Before) :
              (/\ IsSome(Before[i].available_epoch_seconds)
               /\ Unwrap(Before[i].available_epoch_seconds) > TimeOfClaim)
                  => Count(Outstanding, Before[i]) = Count(Before, Before[i])
        /\ \A k \in FirstMatch :
              IsSome(Before[k].available_epoch_seconds) =>
                  IF Unwrap(Before[k].available_epoch_seconds) > TimeOfClaim
                  THEN ~c.ok /\ outstanding_redemptions = c.pre.outstanding
                  ELSE /\ c.err # "redemption not yet available"
                       /\ (/\ FundsOfClaim # << >>
                           /\ FundsOfClaim[1].denom = state.investment_denom
                           /\ FundsOfClaim[1].amount = ClaimedAsset
                           /\ IsSome(MarkerOfClaim)) => c.ok

\* a claim has succeeded at the very second its record became available
C17_Witness ==
    /\ Returned("claim_redemption") /\ c.ok
    /\ \E k \in FirstMatch : Before[k].available_epoch_seconds = Some(TimeOfClaim)

\* C18: a claim removes a record, or returns messages, only if the record
\* removed has the sender as its subscription; every record of another
\* subscription stays; when no outstanding record has the sender, the asset
\* and the capital of the claim, the claim returns an error, no message, and
\* leaves the list as it was.
C18_ClaimOnlyOwnRecord ==
    Returned("claim_redemption") =>
        /\ (outstanding_redemptions # c.pre.outstanding \/ c.msgs # << >>) =>
              \E k \in 1 .. Len(Before) :
                  /\ Before[k].subscription = c.sender
                  /\ outstanding_redemptions = Some(Without(Before, k))
        /\ \A i \in 1 .. Len(Before) :
              Before[i].subscription # c.sender
                  => Count(Outstanding, Before[i]) = Count(Before, Before[i])
        /\ FirstMatch = {} =>
              (~c.ok /\ c.msgs = << >> /\ outstanding_redemptions = c.pre.outstanding)

\* a claim has succeeded past a record of another subscription with the same
\* asset and capital
C18_Witness ==
    /\ Returned("claim_redemption") /\ c.ok
    /\ Len(Before) >= 2
    /\ Before[1].subscription # c.sender
    /\ Before[1].asset = ClaimedAsset /\ Before[1].capital = ClaimedCapital

\* C19: when ClaimRedemption returns an error, the list stored as the handler
\* returns is the list of before the call.
C19_FailedClaimKeepsList ==
    (Returned("claim_redemption") /\ ~c.ok) =>
        outstanding_redemptions = c.pre.outstanding

\* C20: after a successful IssueRedemptions(list) the list stored is the list
\* of before the call followed by `list` (`list` alone when none was stored).
C20_IssueAppendsInOrder ==
    (Returned("issue_redemptions") /\ c.ok) =>
        outstanding_redemptions = Some(Before \o c.args)

\* what CancelRedemptions and ClaimRedemption match a record on
Key(r) == << r.subscription, r.asset, r.capital >>

\* how many records of a list have the key
Asked(list, key) == Cardinality({i \in 1 .. Len(list) : Key(list[i]) = key})

\* the rank of record i of a list among the records of its key, from 1
Rank(list, i) == Cardinality({j \in 1 .. i : Key(list[j]) = Key(list[i])})

\* the records of a list at the indices of keep, in their order
Kept(list, keep) ==
    [n \in 1 .. Cardinality(keep) |->
        list[CHOOSE i \in keep : Cardinality({j \in keep : j <= i}) = n]]

\* the batch of the cancel that has returned asks for more records of some key
\* than are outstanding, or no list is stored
CancelShort ==
    \/ c.pre.outstanding = None
    \/ \E i \in 1 .. Len(c.args) :
           Asked(c.args, Key(c.args[i])) > Asked(Before, Key(c.args[i]))

\* C21: CancelRedemptions(list) by gp removes for each entry the first remaining
\* record with its subscription, asset and capital, whatever the
\* available_epoch_seconds of either: of every key the first records go, as
\* many as the batch names, the others keep their order; it returns an error,
\* with the stored list unchanged, when the batch names a key more often than
\* it is outstanding or when no list is stored.
C21_CancelRemovesFirstMatches ==
    (Returned("cancel_redemptions") /\ c.sender = state.gp) =>
        IF CancelShort
        THEN ~c.ok /\ Store = c.pre
        ELSE /\ c.ok
             /\ outstanding_redemptions =
                    Some(Kept(Before, {i \in 1 .. Len(Before) :
                                          Rank(Before, i) > Asked(c.args, Key(Before[i]))}))

\* a cancel has removed the first of two records of one key, naming it with the
\* available_epoch_seconds of the second
C21_Witness ==
    /\ Returned("cancel_redemptions") /\ c.ok
    /\ Len(c.args) = 1
    /\ \E i, j \in 1 .. Len(Before) :
           /\ i < j
           /\ Key(Before[i]) = Key(c.args[1]) /\ Key(Before[j]) = Key(c.args[1])
           /\ Before[i] # c.args[1] /\ Before[j] = c.args[1]
           /\ Rank(Before, i) = 1
    /\ Len(Outstanding) = Len(Before) - 1

-----------------------------------------------------------------------------
(* Properties of the registry and the ledger together *)

\* C22: in every reachable state every record of the outstanding-redemption
\* list names a subscription that is in accepted, or was in accepted in an
\* earlier finished transaction.
C22_RecordsOfAcceptedOnly ==
    \A i \in 1 .. Len(Outstanding) :
        Outstanding[i].subscription \in accepted \cup was_accepted

\* C22 as amended: a record is added to the outstanding-redemption list only by
\* a successful IssueRedemptions by gp, which adds each record exactly as often
\* as its batch names it; the subscription named need not be, or have been, in
\* accepted, since IssueRedemptions does not look at the registry.
C22_RecordsOfGpIssuesOnly ==
    call # None =>
        \A i \in 1 .. Len(Outstanding) :
            Count(Outstanding, Outstanding[i]) > Count(Before, Outstanding[i]) =>
                /\ c.op = "issue_redemptions" /\ c.ok /\ c.sender = state.gp
                /\ Count(Outstanding, Outstanding[i])
                       = Count(Before, Outstanding[i]) + Count(c.args, Outstanding[i])

\* gp has issued a redemption for an address that never was in accepted
C22_Witness ==
    /\ Returned("issue_redemptions") /\ c.ok
    /\ \E i \in 1 .. Len(c.args) : c.args[i].subscription \notin accepted \cup was_accepted
    /\ Outstanding # << >>

\* the addresses in one of the three sets of a store
Union(store) == store.pending \cup store.eligible \cup store.accepted

\* C25: AcceptSubscriptions leaves pending \cup eligible \cup accepted as it
\* was; a handler adds an address to the union only as the successful reply to
\* an instantiation, and takes one out only as a successful CloseSubscriptions.
C25_UnionFrame ==
    call # None =>
        /\ c.op = "accept_subscriptions" => Union(Store) = Union(c.pre)
        /\ Union(Store) \ Union(c.pre) # {} => (c.op = "reply" /\ c.ok)
        /\ Union(c.pre) \ Union(Store) # {} => (c.op = "close_subscriptions" /\ c.ok)

\* an accept has taken a pending and an eligible subscription in one batch
C25_Witness ==
    /\ Returned("accept_subscriptions") /\ c.ok
    /\ Named(c.args) \cap c.pre.pending # {}
    /\ Named(c.args) \cap c.pre.eligible # {}

\* the set of a store an address is in, "none" when it is in none
Where(store, s) ==
    IF s \in store.accepted THEN "accepted"
    ELSE IF s \in store.eligible THEN "eligible"
    ELSE IF s \in store.pending THEN "pending"
    ELSE "none"

\* C26: a handler leaves every address in the set it was in, except that a
\* successful AcceptSubscriptions moves addresses from pending or eligible to
\* accepted, a successful CloseSubscriptions takes addresses out of all three
\* sets, and the reply to an instantiation puts a new address into pending or
\* eligible: nothing moves out of accepted into pending or eligible, nor
\* between pending and eligible.
C26_OneDirection ==
    call # None =>
        \A s \in Addrs :
            \/ Where(Store, s) = Where(c.pre, s)
            \/ /\ Where(c.pre, s) \in {"pending", "eligible"}
               /\ Where(Store, s) = "accepted"
               /\ c.op = "accept_subscriptions" /\ c.ok
            \/ /\ Where(c.pre, s) # "none"
               /\ Where(Store, s) = "none"
               /\ c.op = "close_subscriptions" /\ c.ok
            \/ /\ Where(c.pre, s) = "none"
               /\ Where(Store, s) \in {"pending", "eligible"}
               /\ c.op = "reply"

\* under the gate an accept has taken a pending subscription while an eligible
\* one it does not name stays eligible
C26_Witness ==
    /\ Returned("accept_subscriptions") /\ c.ok
    /\ state.acceptable_accreditations # {}
    /\ Named(c.args) \cap c.pre.pending # {}
    /\ eligible # {}

RedemptionOps == {"issue_redemptions", "cancel_redemptions", "claim_redemption"}

\* C27: IssueRedemptions, CancelRedemptions and ClaimRedemption leave pending,
\* eligible, accepted and every asset-exchange queue as they were, and
\* AcceptSubscriptions and CloseSubscriptions leave the outstanding-redemption
\* list as it was (so that a redemption of a subscription outlives its close).
C27_LedgerApartFromRegistry ==
    call # None =>
        /\ c.op \in RedemptionOps =>
              /\ pending = c.pre.pending
              /\ eligible = c.pre.eligible
              /\ accepted = c.pre.accepted
              /\ asset_exchange_storage = c.pre.asset_exchange
        /\ c.op \in {"accept_subscriptions", "close_subscriptions"} =>
              outstanding_redemptions = c.pre.outstanding

\* a subscription that was accepted and then closed has claimed its redemption
C27_Witness ==
    /\ Returned("claim_redemption") /\ c.ok
    /\ c.sender \in was_accepted
    /\ c.sender \notin Union(Store)

\* C28: an AcceptSubscriptions by gp whose batch names one subscription in two
\* entries returns an error, and no accept leaves a queue more than one entry
\* longer than it was.
C28_AcceptTwiceFails ==
    (Returned("accept_subscriptions") /\ c.sender = state.gp) =>
        /\ (\E i, j \in 1 .. Len(c.args) :
                i < j /\ c.args[i].subscription = c.args[j].subscription) => ~c.ok
        /\ \A s \in Addrs :
              asset_exchange_storage[s] # c.pre.asset_exchange[s] =>
                  Len(QueueOf(Store, s)) = Len(QueueOf(c.pre, s)) + 1

\* gp names an eligible subscription twice, with amounts that divide: the
\* second entry finds it in neither set
C28_Witness ==
    /\ Returned("accept_subscriptions")
    /\ c.sender = state.gp
    /\ Len(c.args) = 2
    /\ c.args[1].subscription = c.args[2].subscription
    /\ c.args[1].subscription \in c.pre.eligible
    /\ Divisible(1) /\ Divisible(2)
    /\ c.err = "subscription must either be pending or eligible"

-----------------------------------------------------------------------------
(* Properties of the asset-exchange queues *)

\* the rank of element i of a list among the elements equal to it, from 1
RankOf(list, i) == Cardinality({j \in 1 .. i : list[j] = list[i]})

\* two lists hold the same entries, each as often in one as in the other
SameEntries(a, b) ==
    \A x \in Range(a) \cup Range(b) : Count(a, x) = Count(b, x)

\* a list after the removal, for each entry of a batch, of the first element
\* equal to it in all four fields
AfterRemoval(list, batch) ==
    Kept(list, {i \in 1 .. Len(list) : RankOf(list, i) > Count(batch, list[i])})

\* a batch names some entry more often than a list holds it
Missing(list, batch) ==
    \E i \in 1 .. Len(batch) : Count(batch, batch[i]) > Count(list, batch[i])

\* C23: on the storage of a finished transaction, for an accepted subscription
\* and any entry e, IssueAssetExchanges(subscription, [e]) by gp followed by
\* CancelAssetExchanges(subscription, [e]) by gp both succeed and leave the
\* subscription's queue with the entries it had, and every other queue as it
\* was; a cancel by gp removes for each entry of its batch the first element
\* equal to it in all four fields (an element differing in date stays) and
\* returns an error, changing nothing, when an entry has no such element left.
C23_IssueThenCancel ==
    /\ Idle =>
          \A subscription \in accepted, e \in Exchanges :
              LET issued == try_issue_asset_exchanges(Store, state.gp, subscription, << e >>)
                  cancelled == try_cancel_asset_exchanges(issued.store, state.gp,
                                                          subscription, << e >>)
              IN  /\ issued.ok
                  /\ QueueOf(issued.store, subscription)
                         = Append(QueueOf(Store, subscription), e)
                  /\ cancelled.ok
                  /\ SameEntries(QueueOf(cancelled.store, subscription),
                                 QueueOf(Store, subscription))
                  /\ \A other \in Addrs \ {subscription} :
                         cancelled.store.asset_exchange[other]
                             = asset_exchange_storage[other]
    /\ (Returned("cancel_asset_exchanges") /\ c.sender = state.gp) =>
          IF Missing(QueueOf(c.pre, c.args[1]), c.args[2])
          THEN ~c.ok /\ Store = c.pre
          ELSE /\ c.ok
               /\ QueueOf(Store, c.args[1])
                      = AfterRemoval(QueueOf(c.pre, c.args[1]), c.args[2])
               /\ \A other \in Addrs \ {c.args[1]} :
                      asset_exchange_storage[other] = c.pre.asset_exchange[other]

\* gp has cancelled the undated exchange it had issued behind the same exchange
\* with a date, which stays
C23_Witness ==
    /\ Returned("cancel_asset_exchanges") /\ c.ok
    /\ c.args[2] = << IssuedExchange >>
    /\ QueueOf(c.pre, c.args[1])
           = << [IssuedExchange EXCEPT !.date = Some(1675209600)], IssuedExchange >>
    /\ QueueOf(Store, c.args[1]) = << [IssuedExchange EXCEPT !.date = Some(1675209600)] >>

\* the queue of the sender of the call that has returned, in a store
QueueOfSender(store) ==
    IF c.sender \in DOMAIN store.asset_exchange THEN QueueOf(store, c.sender) ELSE << >>

\* some entry of the complete that has returned is dated after the block time
DatedLater ==
    \E i \in 1 .. Len(c.args[1]) :
        IsSome(c.args[1][i].date) /\ Unwrap(c.args[1][i].date) > c.answers

\* C24: a CompleteAssetExchange one of whose entries is dated after the block
\* time, or has no equal entry left in the sender's queue, returns an error,
\* removes no entry and returns no message; otherwise it succeeds, removes from
\* the sender's queue the first element equal to each entry and changes no
\* other queue, no set and not the redemption list.
C24_CompleteAllOrNothing ==
    Returned("complete_asset_exchange") =>
        IF DatedLater \/ Missing(QueueOfSender(c.pre), c.args[1])
        THEN ~c.ok /\ Store = c.pre /\ c.msgs = << >>
        ELSE /\ c.ok
             /\ QueueOfSender(Store) = AfterRemoval(QueueOfSender(c.pre), c.args[1])
             /\ \A other \in Addrs \ {c.sender} :
                    asset_exchange_storage[other] = c.pre.asset_exchange[other]
             /\ pending = c.pre.pending /\ eligible = c.pre.eligible
             /\ accepted = c.pre.accepted
             /\ outstanding_redemptions = c.pre.outstanding

\* a subscription has completed, on the day it falls due, the dated exchange
\* that stood behind its accept entry, while another subscription has a queue
C24_Witness ==
    /\ Returned("complete_asset_exchange") /\ c.ok
    /\ c.args[1] = << [IssuedExchange EXCEPT !.date = Some(1675209600)] >>
    /\ c.answers = 1675209600
    /\ Len(QueueOfSender(c.pre)) = 2
    /\ QueueOfSender(Store) = << AcceptedExchange >>
    /\ \E other \in Addrs \ {c.sender} : IsSome(asset_exchange_storage[other])

====
